---------------------------- MODULE Spec2Model ----------------------------
(***************************************************************************)
(* Buddy-system allocators of buddy_system_allocator:                      *)
(*   Heap            (src/src/lib.rs)   byte heap, intrusive free lists    *)
(*   FrameAllocator  (src/src/frame.rs) frame numbers, one BTreeSet/class  *)
(*                                                                         *)
(* One behaviour drives one allocator instance (kind).  Positions and      *)
(* sizes are counted in units of 2^unit_log bytes (frames): unit_log = 0   *)
(* is the plain byte/frame scale; unit_log = HiUnitLog lets the classes    *)
(* next to ORDER - 1 be reached with small integers.  Every quantity of a  *)
(* behaviour is a whole number of units, so the code's arithmetic (min,    *)
(* xor with a power of two, lowbit, prev/next power of two) commutes with  *)
(* the scaling; only class indices carry the offset unit_log.              *)
(***************************************************************************)
EXTENDS Integers, Sequences, FiniteSets

VARIABLES
    kind,       \* "heap" or "frame": the allocator this behaviour drives
    unit_log,   \* log2 of the unit positions and sizes are counted in
    heap,       \* struct Heap
    frame,      \* struct FrameAllocator
    live,       \* the caller's allocations not yet returned
    regions,    \* the ranges passed to add_to_heap / add_frame so far
    last,       \* the last call made and what it returned
    pre_alloc,  \* the allocator as it was when the last alloc call started
    panicked,   \* a call has panicked (assert!, index out of bounds)
    gate,       \* the lock flag of the Mutex in LockedHeap / LockedFrameAllocator
    thread      \* the threads that call through the locked wrapper

vars == <<kind, unit_log, heap, frame, live, regions, last, pre_alloc, panicked,
          gate, thread>>

----------------------------------------------------------------------------
(* Program constants *)

\* free_list: [...; 32]
ORDER == 32

\* size_of::<usize>() on the 64-bit targets the crate is built for
size_of_usize == 8

\* the value substituted for lowbit when current_start = 0 in add_frame
FrameOriginCap == 32

(* Bounds of the model *)

\* log2 of the unit of the high-range behaviours: class ORDER - 1 is 2 units
HiUnitLog == ORDER - 2

\* positions 2^(ORDER-1) * (1 .. MaxHiPoint) are offered to add_* in the
\* high range
MaxHiPoint == 4

\* frame positions 0..MaxFrame are offered to add_frame in the low range
MaxFrame == 4

\* word-aligned heap addresses 8, 16, .. 8 * MaxWords are offered to add_to_heap
MaxWords == 2

\* number of add-region calls in one behaviour
MaxRegions == 2

\* number of simultaneously live allocations (a call that would add one
\* more is not made; calls that fail are)
MaxLive == 2

\* number of threads that share a locked allocator
NThreads == 2

----------------------------------------------------------------------------
(* Integer helpers (core::cmp, usize methods) *)

Min(a, b) == IF a <= b THEN a ELSE b

Max(a, b) == IF a >= b THEN a ELSE b

Classes == 0 .. (ORDER - 1)

\* usize::trailing_zeros; 0.trailing_zeros() is the bit width
RECURSIVE trailing_zeros(_)
trailing_zeros(n) ==
    IF n = 0 THEN 8 * size_of_usize
    ELSE IF n % 2 = 1 THEN 0 ELSE 1 + trailing_zeros(n \div 2)

\* usize::next_power_of_two: smallest power of two >= n (1 for n = 0)
RECURSIVE npt_from(_, _)
npt_from(p, n) == IF p >= n THEN p ELSE npt_from(2 * p, n)

next_power_of_two(n) == npt_from(1, n)

\* fn prev_power_of_two: 1 << (bits - leading_zeros(num) - 1), num >= 1
RECURSIVE ppt_from(_, _)
ppt_from(p, n) == IF 2 * p > n THEN p ELSE ppt_from(2 * p, n)

prev_power_of_two(num) == ppt_from(1, num)

\* current_start & (!current_start + 1): 0 for 0, else the lowest set bit
RECURSIVE lowbit(_)
lowbit(x) ==
    IF x = 0 THEN 0
    ELSE IF x % 2 = 1 THEN 1 ELSE 2 * lowbit(x \div 2)

\* size_of::<usize>() in units (every quantity is at least one unit)
WordUnits == IF unit_log = 0 THEN size_of_usize ELSE 1

\* size.trailing_zeros() as usize, for a size given in units
ClassOf(size) ==
    IF size = 0 THEN trailing_zeros(0) ELSE unit_log + trailing_zeros(size)

\* 1 << k, in units
Shl1(k) == 2 ^ (k - unit_log)

\* p ^ (1 << k)
XorBit(p, k) ==
    IF (p \div Shl1(k)) % 2 = 1 THEN p - Shl1(k) ELSE p + Shl1(k)

SetMin(S) == CHOOSE x \in S : \A y \in S : x <= y

----------------------------------------------------------------------------
(* linked_list::LinkedList: push / pop / is_empty / iter_mut + pop.        *)
(* A list is the sequence of its nodes' addresses, head first.             *)

LL_new == << >>

LL_push(l, a) == <<a>> \o l

LL_is_empty(l) == l = << >>

\* pop() of a non-empty list: the head and the rest
LL_pop_value(l) == Head(l)

LL_pop_rest(l) == Tail(l)

\* iter_mut() ... block.pop(): unlink the first node whose address is a
LL_contains(l, a) == \E i \in 1 .. Len(l) : l[i] = a

LL_remove(l, a) ==
    LET i == CHOOSE i \in 1 .. Len(l) :
                 l[i] = a /\ \A j \in 1 .. (i - 1) : l[j] # a
    IN  SubSeq(l, 1, i - 1) \o SubSeq(l, i + 1, Len(l))

LL_set(l) == {l[i] : i \in 1 .. Len(l)}

----------------------------------------------------------------------------
(* Heap (src/src/lib.rs) *)

\* Heap::new()
Heap_new ==
    [free_list |-> [k \in Classes |-> LL_new],
     user |-> 0, allocated |-> 0, total |-> 0]

\* add_to_heap: lowbit and size of the block emitted at current_start
Heap_block_size(current_start, end) ==
    Min(lowbit(current_start), prev_power_of_two(end - current_start))

\* add_to_heap: the while loop.  Indexing free_list outside 0..31 panics
\* before self.total is updated.
RECURSIVE add_to_heap_loop(_, _, _, _)
add_to_heap_loop(h, current_start, end, total) ==
    IF current_start + WordUnits <= end
    THEN LET size  == Heap_block_size(current_start, end)
             class == ClassOf(size)
         IN  IF class \notin Classes
             THEN [h |-> h, panic |-> TRUE]
             ELSE add_to_heap_loop(
                      [h EXCEPT !.free_list[class] = LL_push(@, current_start)],
                      current_start + size, end, total + size)
    ELSE [h |-> [h EXCEPT !.total = @ + total], panic |-> FALSE]

\* Heap::add_to_heap(start, end); assert!(start <= end) panics first
Heap_add_to_heap(h, start, end) ==
    IF ~(start <= end)
    THEN [h |-> h, panic |-> TRUE]
    ELSE add_to_heap_loop(h, start, end, 0)

\* mutant: the alignment is left out of the block size
Heap_request_size_no_align(lsize, lalign) ==
    Max(next_power_of_two(lsize), WordUnits)

\* mutant: the word size is left out of the block size
Heap_request_size_no_word(lsize, lalign) ==
    Max(next_power_of_two(lsize), lalign)

\* max(layout.size().next_power_of_two(), max(layout.align(), size_of::<usize>()))
Heap_request_size(lsize, lalign) ==
    Max(next_power_of_two(lsize), Max(lalign, WordUnits))

\* mutant: the second half is pushed at the address of the first
Heap_split_upper_same(block, j) == block

\* the upper half pushed by one split step: block + (1 << (j - 1))
Heap_split_upper(block, j) == block + Shl1(j - 1)

\* mutant: the halves are pushed back on the class they were popped from
Heap_split_class_same(j) == j

\* the class that receives the two halves of a class-j block: free_list[j - 1]
Heap_split_class(j) == j - 1

\* for j in (class + 1..i + 1).rev(): pop from j, push both halves on j - 1;
\* an empty class j returns Err with the splits made so far left in place
RECURSIVE Heap_split(_, _, _)
Heap_split(fl, j, class) ==
    IF j <= class THEN [fl |-> fl, ok |-> TRUE]
    ELSE IF LL_is_empty(fl[j]) THEN [fl |-> fl, ok |-> FALSE]
    ELSE LET block == LL_pop_value(fl[j])
             fl1 == [fl EXCEPT ![j] = LL_pop_rest(@)]
             fl2 == [fl1 EXCEPT ![Heap_split_class(j)] =
                                    LL_push(@, Heap_split_upper(block, j))]
             fl3 == [fl2 EXCEPT ![Heap_split_class(j)] = LL_push(@, block)]
         IN  Heap_split(fl3, j - 1, class)

\* mutant: the scan starts one class too high
Heap_candidates_above(h, class) ==
    {i \in Classes : i > class /\ ~LL_is_empty(h.free_list[i])}

\* the classes i in class..free_list.len() whose list is not empty
Heap_candidates(h, class) ==
    {i \in Classes : i >= class /\ ~LL_is_empty(h.free_list[i])}

\* mutant: the two counters are advanced by each other's amount
Heap_account_alloc_swapped(h, lsize, size) ==
    [h EXCEPT !.user = @ + size, !.allocated = @ + lsize]

\* self.user += layout.size(); self.allocated += size
Heap_account_alloc(h, lsize, size) ==
    [h EXCEPT !.user = @ + lsize, !.allocated = @ + size]

\* Heap::alloc(layout)
Heap_alloc(h, lsize, lalign) ==
    LET size  == Heap_request_size(lsize, lalign)
        class == ClassOf(size)
        cand  == Heap_candidates(h, class)
    IN  IF cand = {}
        THEN [h |-> h, ok |-> FALSE, ptr |-> 0, panic |-> FALSE]
        ELSE LET i  == SetMin(cand)
                 sp == Heap_split(h.free_list, i, class)
                 h1 == [h EXCEPT !.free_list = sp.fl]
             IN  IF ~sp.ok
                 THEN [h |-> h1, ok |-> FALSE, ptr |-> 0, panic |-> FALSE]
                 ELSE IF LL_is_empty(sp.fl[class])
                 THEN \* .expect("current block should have free space now")
                      [h |-> h1, ok |-> FALSE, ptr |-> 0, panic |-> TRUE]
                 ELSE LET result == LL_pop_value(sp.fl[class])
                          h2 == [h1 EXCEPT !.free_list[class] = LL_pop_rest(@)]
                      IN  IF result = 0
                          THEN \* NonNull::new(null) is None
                               [h |-> h2, ok |-> FALSE, ptr |-> 0, panic |-> FALSE]
                          ELSE [h |-> Heap_account_alloc(h2, lsize, size),
                                ok |-> TRUE, ptr |-> result, panic |-> FALSE]

\* mutant: the buddy is always looked for above the block
Heap_buddy_above(current_ptr, current_class) == current_ptr + Shl1(current_class)

\* dealloc: the buddy of current_ptr in current_class
Heap_buddy(current_ptr, current_class) == XorBit(current_ptr, current_class)

\* dealloc: while current_class < self.free_list.len()
Heap_merge_guard(current_class) == current_class < ORDER

\* dealloc: the merge loop.  free_list[32].push(..) panics (index out of
\* bounds) after the two class-31 buddies were unlinked.
RECURSIVE Heap_merge(_, _, _)
Heap_merge(fl, current_ptr, current_class) ==
    IF ~Heap_merge_guard(current_class) THEN [fl |-> fl, panic |-> FALSE]
    ELSE LET buddy == Heap_buddy(current_ptr, current_class)
         IN  IF LL_contains(fl[current_class], buddy)
             THEN LET fl1 == [fl EXCEPT ![current_class] = LL_remove(@, buddy)]
                      fl2 == [fl1 EXCEPT ![current_class] = LL_pop_rest(@)]
                      ptr == Min(current_ptr, buddy)
                  IN  IF current_class + 1 \notin Classes
                      THEN [fl |-> fl2, panic |-> TRUE]
                      ELSE Heap_merge(
                               [fl2 EXCEPT ![current_class + 1] = LL_push(@, ptr)],
                               ptr, current_class + 1)
             ELSE [fl |-> fl, panic |-> FALSE]

\* self.user -= layout.size(); self.allocated -= size.  A counter below
\* zero stands for the usize underflow (panic or wrap-around, by build).
Heap_account_dealloc(h, lsize, size) ==
    [h EXCEPT !.user = @ - lsize, !.allocated = @ - size]

\* Heap::dealloc(ptr, layout)
Heap_dealloc(h, ptr, lsize, lalign) ==
    LET size  == Heap_request_size(lsize, lalign)
        class == ClassOf(size)
    IN  IF class \notin Classes
        THEN [h |-> h, panic |-> TRUE]
        ELSE LET m  == Heap_merge([h.free_list EXCEPT ![class] = LL_push(@, ptr)],
                                  ptr, class)
                 h1 == [h EXCEPT !.free_list = m.fl]
             IN  IF m.panic
                 THEN [h |-> h1, panic |-> TRUE]
                 ELSE [h |-> Heap_account_dealloc(h1, lsize, size),
                       panic |-> FALSE]

----------------------------------------------------------------------------
(* FrameAllocator (src/src/frame.rs) *)

\* FrameAllocator::new()
Frame_new ==
    [free_list |-> [k \in Classes |-> {}], allocated |-> 0, total |-> 0]

\* add_frame: lowbit (32 at frame 0) and size of the block at current_start
Frame_block_size(current_start, end) ==
    LET lb == IF current_start > 0 THEN lowbit(current_start) ELSE FrameOriginCap
    IN  Min(lb, prev_power_of_two(end - current_start))

\* add_frame: the while loop
RECURSIVE add_frame_loop(_, _, _, _)
add_frame_loop(f, current_start, end, total) ==
    IF current_start < end
    THEN LET size  == Frame_block_size(current_start, end)
             class == ClassOf(size)
         IN  IF class \notin Classes
             THEN [f |-> f, panic |-> TRUE]
             ELSE add_frame_loop(
                      [f EXCEPT !.free_list[class] = @ \cup {current_start}],
                      current_start + size, end, total + size)
    ELSE [f |-> [f EXCEPT !.total = @ + total], panic |-> FALSE]

\* FrameAllocator::add_frame(start, end)
Frame_add_frame(f, start, end) ==
    IF ~(start <= end)
    THEN [f |-> f, panic |-> TRUE]
    ELSE add_frame_loop(f, start, end, 0)

\* count.next_power_of_two()
Frame_request_size(count) == next_power_of_two(count)

\* mutant: the set is read from its other end
Frame_first_last(set) == CHOOSE x \in set : \A y \in set : y <= x

\* self.free_list[j].iter().next(): the least element of the BTreeSet
Frame_first(set) == SetMin(set)

\* the upper half inserted by one split step: block + (1 << (j - 1))
Frame_split_upper(block, j) == block + Shl1(j - 1)

\* the class that receives the two halves of a class-j block: free_list[j - 1]
Frame_split_class(j) == j - 1

\* for j in (class + 1..i + 1).rev()
RECURSIVE Frame_split(_, _, _)
Frame_split(fl, j, class) ==
    IF j <= class THEN [fl |-> fl, ok |-> TRUE]
    ELSE IF fl[j] = {} THEN [fl |-> fl, ok |-> FALSE]
    ELSE LET block == Frame_first(fl[j])
             fl1 == [fl EXCEPT ![Frame_split_class(j)] =
                                   @ \cup {Frame_split_upper(block, j)}]
             fl2 == [fl1 EXCEPT ![Frame_split_class(j)] = @ \cup {block}]
             fl3 == [fl2 EXCEPT ![j] = @ \ {block}]
         IN  Frame_split(fl3, j - 1, class)

\* the classes i in class..free_list.len() whose set is not empty
Frame_candidates(f, class) ==
    {i \in Classes : i >= class /\ f.free_list[i] # {}}

\* self.allocated += size
Frame_account_alloc(f, size) == [f EXCEPT !.allocated = @ + size]

\* FrameAllocator::alloc(count)
Frame_alloc(f, count) ==
    LET size  == Frame_request_size(count)
        class == ClassOf(size)
        cand  == Frame_candidates(f, class)
    IN  IF cand = {}
        THEN [f |-> f, ok |-> FALSE, ptr |-> 0]
        ELSE LET i  == SetMin(cand)
                 sp == Frame_split(f.free_list, i, class)
                 f1 == [f EXCEPT !.free_list = sp.fl]
             IN  IF ~sp.ok \/ sp.fl[class] = {}
                 THEN [f |-> f1, ok |-> FALSE, ptr |-> 0]
                 ELSE LET result == Frame_first(sp.fl[class])
                      IN  [f |-> Frame_account_alloc(
                                     [f1 EXCEPT !.free_list[class] = @ \ {result}],
                                     size),
                           ok |-> TRUE, ptr |-> result]

\* mutant: the buddy is always looked for above the block
Frame_buddy_above(current_ptr, current_class) == current_ptr + Shl1(current_class)

\* dealloc: the buddy of current_ptr in current_class
Frame_buddy(current_ptr, current_class) == XorBit(current_ptr, current_class)

\* dealloc: while current_class < self.free_list.len()
Frame_merge_guard(current_class) == current_class < ORDER

\* dealloc: the merge loop; leaving it through the guard inserts nothing
RECURSIVE Frame_merge(_, _, _)
Frame_merge(fl, current_ptr, current_class) ==
    IF ~Frame_merge_guard(current_class) THEN fl
    ELSE LET buddy == Frame_buddy(current_ptr, current_class)
         IN  IF buddy \in fl[current_class]
             THEN Frame_merge([fl EXCEPT ![current_class] = @ \ {buddy}],
                              Min(current_ptr, buddy), current_class + 1)
             ELSE [fl EXCEPT ![current_class] = @ \cup {current_ptr}]

\* self.allocated -= size.  A counter below zero stands for the usize
\* underflow (panic or wrap-around, by build).
Frame_account_dealloc(f, size) == [f EXCEPT !.allocated = @ - size]

\* FrameAllocator::dealloc(frame, count)
Frame_dealloc(f, frm, count) ==
    LET size  == Frame_request_size(count)
        class == ClassOf(size)
        f1    == [f EXCEPT !.free_list = Frame_merge(@, frm, class)]
    IN  Frame_account_dealloc(f1, size)

----------------------------------------------------------------------------
(* The callers: inputs offered to the operations *)

LoMode == unit_log = 0

\* the ranges <<start, end>> with start < end over a set of points, one
\* empty range and one with start > end
RangesOver(points) ==
    {rg \in points \X points : rg[1] < rg[2]}
    \cup {<<SetMin(points), SetMin(points)>>}
    \cup {rg \in points \X points : rg[2] = SetMin(points) /\ rg[1] = 2 * rg[2]}

\* points of the high range: multiples of 2^(ORDER - 1) bytes (frames)
HiPoints == {2 * i : i \in 1 .. MaxHiPoint}

\* ranges offered to add_to_heap: over the word-aligned addresses
\* 8 .. 8 * MaxWords, and a few more: 1 KiB regions (two aligned to
\* 1 KiB, one not), an unaligned start, an odd start, address 0
HeapRanges ==
    IF LoMode
    THEN RangesOver({8 * i : i \in 1 .. MaxWords})
         \cup {<<1024, 2048>>, <<2048, 3072>>, <<8, 1032>>, <<12, 40>>, <<9, 17>>,
               <<0, 8>>}
    ELSE RangesOver(HiPoints)

\* Layout { size, align } offered to Heap::alloc
HeapLayouts ==
    IF LoMode
    THEN {<<1, 1>>, <<9, 1>>, <<1, 64>>, <<1024, 8>>}
    ELSE {<<1, 1>>, <<2, 1>>, <<3, 1>>, <<1, 4>>}

\* ranges offered to add_frame.  The high range leaves out frame 0, where
\* the code's cap of 32 frames is below one unit.
FrameRanges ==
    IF LoMode
    THEN RangesOver(1 .. MaxFrame)
         \cup {<<0, j>> : j \in (1 .. MaxFrame) \cup
                                {2 * FrameOriginCap, 4 * FrameOriginCap}}
    ELSE RangesOver(HiPoints)

\* counts offered to FrameAllocator::alloc
FrameCounts ==
    IF LoMode THEN {1, 2, 3, 2 * FrameOriginCap} ELSE {1, 2, 3}

\* [start, end) meets no range added before
DisjointFromRegions(start, end) ==
    \A r \in regions : start >= end \/ r[1] >= r[2] \/ end <= r[1] \/ r[2] <= start

\* regions are added before the first allocation (spec, lifecycle)
Adding == last.op \in {"none", "add"}

\* the threads spawned on one locked allocator
Threads == 1 .. NThreads

\* a thread outside the allocator, owning no allocation
IdleThread == [pc |-> "idle", op |-> "none", mine |-> {}]

NoCall ==
    [op |-> "none", ok |-> TRUE, ptr |-> 0, req |-> 0, align |-> 0,
     roundtrip |-> FALSE]

\* the rounded-up size of a live allocation
LiveSize(a) ==
    IF kind = "heap" THEN Heap_request_size(a.req, a.align)
    ELSE Frame_request_size(a.req)

----------------------------------------------------------------------------
(* State machine *)

Init ==
    /\ kind \in {"heap", "frame"}
    /\ unit_log \in {0, HiUnitLog}
    /\ heap = Heap_new
    /\ frame = Frame_new
    /\ live = {}
    /\ regions = {}
    /\ last = NoCall
    /\ pre_alloc = IF kind = "heap" THEN Heap_new ELSE Frame_new
    /\ panicked = FALSE
    /\ gate = FALSE
    /\ thread = [t \in Threads |-> IdleThread]

AddToHeap ==
    /\ kind = "heap" /\ ~panicked /\ Adding
    /\ Cardinality(regions) < MaxRegions
    /\ \E rg \in HeapRanges :
          /\ DisjointFromRegions(rg[1], rg[2])
          /\ LET r == Heap_add_to_heap(heap, rg[1], rg[2])
             IN  /\ heap' = r.h
                 /\ pre_alloc' = r.h
                 /\ panicked' = r.panic
                 /\ regions' = regions \cup {rg}
                 /\ last' = [op |-> "add", ok |-> ~r.panic, ptr |-> rg[1],
                             req |-> rg[2], align |-> 0, roundtrip |-> FALSE]
    /\ UNCHANGED <<kind, unit_log, frame, live, gate, thread>>

HeapAlloc ==
    /\ kind = "heap" /\ ~panicked
    /\ \E layout \in HeapLayouts :
          LET r == Heap_alloc(heap, layout[1], layout[2])
          IN  /\ r.ok => Cardinality(live) < MaxLive
              /\ heap' = r.h
              /\ pre_alloc' = heap
              /\ panicked' = r.panic
              /\ live' = IF r.ok
                         THEN live \cup {[ptr |-> r.ptr, req |-> layout[1],
                                          align |-> layout[2]]}
                         ELSE live
              /\ last' = [op |-> "alloc", ok |-> r.ok, ptr |-> r.ptr,
                          req |-> layout[1], align |-> layout[2],
                          roundtrip |-> FALSE]
    /\ UNCHANGED <<kind, unit_log, frame, regions, gate, thread>>

HeapDealloc ==
    /\ kind = "heap" /\ ~panicked
    /\ \E a \in live :
          LET r  == Heap_dealloc(heap, a.ptr, a.req, a.align)
              rt == /\ last.op = "alloc" /\ last.ok
                    /\ last.ptr = a.ptr /\ last.req = a.req /\ last.align = a.align
          IN  /\ heap' = r.h
              /\ pre_alloc' = IF rt THEN pre_alloc ELSE r.h
              /\ panicked' = r.panic
              /\ live' = live \ {a}
              /\ last' = [op |-> "dealloc", ok |-> ~r.panic, ptr |-> 0,
                          req |-> 0, align |-> 0, roundtrip |-> rt]
    /\ UNCHANGED <<kind, unit_log, frame, regions, gate, thread>>

AddFrame ==
    /\ kind = "frame" /\ ~panicked /\ Adding
    /\ Cardinality(regions) < MaxRegions
    /\ \E rg \in FrameRanges :
          /\ DisjointFromRegions(rg[1], rg[2])
          /\ LET r == Frame_add_frame(frame, rg[1], rg[2])
             IN  /\ frame' = r.f
                 /\ pre_alloc' = r.f
                 /\ panicked' = r.panic
                 /\ regions' = regions \cup {rg}
                 /\ last' = [op |-> "add", ok |-> ~r.panic, ptr |-> rg[1],
                             req |-> rg[2], align |-> 0, roundtrip |-> FALSE]
    /\ UNCHANGED <<kind, unit_log, heap, live, gate, thread>>

FrameAlloc ==
    /\ kind = "frame" /\ ~panicked
    /\ \E count \in FrameCounts :
          LET r == Frame_alloc(frame, count)
          IN  /\ r.ok => Cardinality(live) < MaxLive
              /\ frame' = r.f
              /\ pre_alloc' = frame
              /\ live' = IF r.ok
                         THEN live \cup {[ptr |-> r.ptr, req |-> count, align |-> 0]}
                         ELSE live
              /\ last' = [op |-> "alloc", ok |-> r.ok, ptr |-> r.ptr,
                          req |-> count, align |-> 0, roundtrip |-> FALSE]
    /\ UNCHANGED <<kind, unit_log, heap, regions, panicked, gate, thread>>

FrameDealloc ==
    /\ kind = "frame" /\ ~panicked
    /\ \E a \in live :
          LET r  == Frame_dealloc(frame, a.ptr, a.req)
              rt == /\ last.op = "alloc" /\ last.ok
                    /\ last.ptr = a.ptr /\ last.req = a.req
          IN  /\ frame' = r
              /\ pre_alloc' = IF rt THEN pre_alloc ELSE r
              /\ live' = live \ {a}
              /\ last' = [op |-> "dealloc", ok |-> TRUE, ptr |-> 0,
                          req |-> 0, align |-> 0, roundtrip |-> rt]
    /\ UNCHANGED <<kind, unit_log, heap, regions, panicked, gate, thread>>

Next ==
    \/ AddToHeap
    \/ HeapAlloc
    \/ HeapDealloc
    \/ AddFrame
    \/ FrameAlloc
    \/ FrameDealloc

Spec == Init /\ [][Next]_vars

----------------------------------------------------------------------------
(* Locked wrappers: LockedHeap (src/src/lib.rs) and LockedFrameAllocator   *)
(* (src/src/frame.rs).  Every call is self.0.lock().<operation>: the       *)
(* thread spins until it has set the lock flag, runs the operation on the  *)
(* allocator behind the guard, and the guard clears the flag when it is    *)
(* dropped at the end of the call.                                         *)

\* the ranges the threads add through the wrapper (pairwise disjoint)
LockedRanges ==
    IF ~LoMode THEN {<<2, 4>>, <<4, 6>>, <<6, 8>>}
    ELSE IF kind = "heap" THEN {<<0, 8>>, <<8, 16>>, <<16, 32>>}
    ELSE {<<0, 2>>, <<2, 3>>, <<3, 4>>}

\* the requests of the threads: <<size, align>> for LockedHeap (SMALL_SIZE
\* with ALIGN of the benchmark, and twice that), <<count, 0>> for frames
LockedRequests ==
    IF kind = "frame" THEN {<<1, 0>>, <<2, 0>>}
    ELSE IF LoMode THEN {<<8, 8>>, <<16, 8>>}
    ELSE {<<1, 1>>, <<2, 1>>}

\* the number of threads that have called op and not yet returned
Pending(op) ==
    Cardinality({t \in Threads :
                    thread[t].pc \in {"lock", "held"} /\ thread[t].op = op})

\* a thread calls an operation of the wrapper and enters lock()
Call(t) ==
    /\ thread[t].pc = "idle"
    /\ \E op \in {"add", "alloc", "dealloc"} :
          /\ op = "add" => Cardinality(regions) + Pending("add") < MaxRegions
          /\ op = "alloc" => Cardinality(live) + Pending("alloc") < MaxLive
          /\ op = "dealloc" => thread[t].mine # {}
          /\ thread' = [thread EXCEPT ![t].pc = "lock", ![t].op = op]
    /\ UNCHANGED <<kind, unit_log, heap, frame, live, regions, last,
                   pre_alloc, panicked, gate>>

\* Mutex::lock(): the spin loop leaves once it has set the free flag
Acquire(t) ==
    /\ thread[t].pc = "lock"
    /\ gate = FALSE
    /\ gate' = TRUE
    /\ thread' = [thread EXCEPT ![t].pc = "held"]
    /\ UNCHANGED <<kind, unit_log, heap, frame, live, regions, last,
                   pre_alloc, panicked>>

\* the end of a call: the guard is dropped and the flag cleared.  A panic
\* ends the thread; the flag is cleared when the panic unwinds and stays
\* set when the panic handler halts.
Leave(t, panic, mine) ==
    /\ thread' = [thread EXCEPT ![t] = [pc |-> IF panic THEN "dead" ELSE "idle",
                                        op |-> "none", mine |-> mine]]
    /\ \E g \in (IF panic THEN BOOLEAN ELSE {FALSE}) : gate' = g

\* LockedHeap::add_to_heap: self.0.lock().add_to_heap(start, end)
LockedAddToHeap(t) ==
    /\ kind = "heap" /\ thread[t].pc = "held" /\ thread[t].op = "add"
    /\ \E rg \in LockedRanges \ regions :
          LET r == Heap_add_to_heap(heap, rg[1], rg[2])
          IN  /\ heap' = r.h
              /\ pre_alloc' = r.h
              /\ panicked' = (panicked \/ r.panic)
              /\ regions' = regions \cup {rg}
              /\ last' = [op |-> "add", ok |-> ~r.panic, ptr |-> rg[1],
                          req |-> rg[2], align |-> 0, roundtrip |-> FALSE]
              /\ Leave(t, r.panic, thread[t].mine)
    /\ UNCHANGED <<kind, unit_log, frame, live>>

\* GlobalAlloc::alloc: self.0.lock().alloc(layout), null on Err
LockedHeapAlloc(t) ==
    /\ kind = "heap" /\ thread[t].pc = "held" /\ thread[t].op = "alloc"
    /\ \E layout \in LockedRequests :
          LET r == Heap_alloc(heap, layout[1], layout[2])
              a == [ptr |-> r.ptr, req |-> layout[1], align |-> layout[2]]
          IN  /\ heap' = r.h
              /\ pre_alloc' = heap
              /\ panicked' = (panicked \/ r.panic)
              /\ live' = IF r.ok THEN live \cup {a} ELSE live
              /\ last' = [op |-> "alloc", ok |-> r.ok, ptr |-> r.ptr,
                          req |-> layout[1], align |-> layout[2],
                          roundtrip |-> FALSE]
              /\ Leave(t, r.panic,
                       IF r.ok THEN thread[t].mine \cup {a} ELSE thread[t].mine)
    /\ UNCHANGED <<kind, unit_log, frame, regions>>

\* GlobalAlloc::dealloc: self.0.lock().dealloc(ptr, layout)
LockedHeapDealloc(t) ==
    /\ kind = "heap" /\ thread[t].pc = "held" /\ thread[t].op = "dealloc"
    /\ \E a \in thread[t].mine :
          LET r == Heap_dealloc(heap, a.ptr, a.req, a.align)
          IN  /\ heap' = r.h
              /\ pre_alloc' = r.h
              /\ panicked' = (panicked \/ r.panic)
              /\ live' = live \ {a}
              /\ last' = [op |-> "dealloc", ok |-> ~r.panic, ptr |-> 0,
                          req |-> 0, align |-> 0, roundtrip |-> FALSE]
              /\ Leave(t, r.panic, thread[t].mine \ {a})
    /\ UNCHANGED <<kind, unit_log, frame, regions>>

\* frame.lock().add_frame(start, end)
LockedAddFrame(t) ==
    /\ kind = "frame" /\ thread[t].pc = "held" /\ thread[t].op = "add"
    /\ \E rg \in LockedRanges \ regions :
          LET r == Frame_add_frame(frame, rg[1], rg[2])
          IN  /\ frame' = r.f
              /\ pre_alloc' = r.f
              /\ panicked' = (panicked \/ r.panic)
              /\ regions' = regions \cup {rg}
              /\ last' = [op |-> "add", ok |-> ~r.panic, ptr |-> rg[1],
                          req |-> rg[2], align |-> 0, roundtrip |-> FALSE]
              /\ Leave(t, r.panic, thread[t].mine)
    /\ UNCHANGED <<kind, unit_log, heap, live>>

\* frame.lock().alloc(count)
LockedFrameAlloc(t) ==
    /\ kind = "frame" /\ thread[t].pc = "held" /\ thread[t].op = "alloc"
    /\ \E request \in LockedRequests :
          LET r == Frame_alloc(frame, request[1])
              a == [ptr |-> r.ptr, req |-> request[1], align |-> 0]
          IN  /\ frame' = r.f
              /\ pre_alloc' = frame
              /\ live' = IF r.ok THEN live \cup {a} ELSE live
              /\ last' = [op |-> "alloc", ok |-> r.ok, ptr |-> r.ptr,
                          req |-> request[1], align |-> 0, roundtrip |-> FALSE]
              /\ Leave(t, FALSE,
                       IF r.ok THEN thread[t].mine \cup {a} ELSE thread[t].mine)
    /\ UNCHANGED <<kind, unit_log, heap, regions, panicked>>

\* frame.lock().dealloc(frame, count)
LockedFrameDealloc(t) ==
    /\ kind = "frame" /\ thread[t].pc = "held" /\ thread[t].op = "dealloc"
    /\ \E a \in thread[t].mine :
          LET r == Frame_dealloc(frame, a.ptr, a.req)
          IN  /\ frame' = r
              /\ pre_alloc' = r
              /\ live' = live \ {a}
              /\ last' = [op |-> "dealloc", ok |-> TRUE, ptr |-> 0,
                          req |-> 0, align |-> 0, roundtrip |-> FALSE]
              /\ Leave(t, FALSE, thread[t].mine \ {a})
    /\ UNCHANGED <<kind, unit_log, heap, regions, panicked>>

LockedNext ==
    \E t \in Threads :
       \/ Call(t)
       \/ Acquire(t)
       \/ LockedAddToHeap(t)
       \/ LockedHeapAlloc(t)
       \/ LockedHeapDealloc(t)
       \/ LockedAddFrame(t)
       \/ LockedFrameAlloc(t)
       \/ LockedFrameDealloc(t)

LockedSpec == Init /\ [][LockedNext]_vars

\* the threads are scheduled fairly.  A thread behind the guard runs its
\* operation: the operation step of t is enabled exactly while t is behind
\* the guard and is the only step that takes t out of it, so weak fairness
\* of that step is stated on the position of t.  A thread that finds the
\* flag free again and again gets it.
LockedFair ==
    \A t \in Threads :
       []<>(thread[t].pc # "held") /\ SF_vars(Acquire(t))

LockedLive == LockedSpec /\ LockedFair

----------------------------------------------------------------------------
(* Vocabulary of the properties *)

\* the allocator of this behaviour, as a record with the fields both share
Allocated == IF kind = "heap" THEN heap.allocated ELSE frame.allocated

Total == IF kind = "heap" THEN heap.total ELSE frame.total

\* the free blocks of class k, as a set of start positions
FreeSet(k) ==
    IF kind = "heap" THEN LL_set(heap.free_list[k]) ELSE frame.free_list[k]

\* [p1, p1 + s1) and [p2, p2 + s2) do not meet
RangesDisjoint(p1, s1, p2, s2) == p1 + s1 <= p2 \/ p2 + s2 <= p1

LiveDisjoint(a, b) ==
    RangesDisjoint(a.ptr, LiveSize(a), b.ptr, LiveSize(b))

\* the allocation a successful alloc call has just returned
Returned(call) == [ptr |-> call.ptr, req |-> call.req, align |-> call.align]

\* the free blocks of class k when the last alloc call started
PreFreeSet(k) ==
    IF kind = "heap" THEN LL_set(pre_alloc.free_list[k])
    ELSE pre_alloc.free_list[k]

\* the request class of an alloc call, and whether some class from it on
\* held a free block when the last alloc call started
CallClass(call) ==
    IF kind = "heap" THEN ClassOf(Max(next_power_of_two(call.req),
                                      Max(call.align, WordUnits)))
    ELSE ClassOf(next_power_of_two(call.req))

SomeClassFrom(class) == \E i \in Classes : i >= class /\ PreFreeSet(i) # {}

\* two allocator records hold the same blocks class by class (list order
\* ignored) and the same counters
SameHeap(h1, h2) ==
    /\ \A k \in Classes :
          /\ LL_set(h1.free_list[k]) = LL_set(h2.free_list[k])
          /\ Len(h1.free_list[k]) = Len(h2.free_list[k])
    /\ h1.user = h2.user /\ h1.allocated = h2.allocated /\ h1.total = h2.total

SameFrame(f1, f2) == f1 = f2

----------------------------------------------------------------------------
(* C1: any two live allocations occupy disjoint ranges [p, p + s), s the   *)
(* rounded-up block size; and a block returned by alloc is disjoint from   *)
(* every allocation live when the call was made.  Heap and FrameAllocator. *)
C1_LiveDisjoint ==
    [][ /\ \A a \in live' : \A b \in live' : a # b => LiveDisjoint(a, b)
        /\ (last'.op = "alloc" /\ last'.ok)
              => \A a \in live : LiveDisjoint(Returned(last'), a)
      ]_vars

\* two allocations live at once, cut from one block by a split
C1_Witness ==
    /\ kind = "heap"
    /\ \E a \in live : \E b \in live :
          a # b /\ a.ptr + LiveSize(a) = b.ptr /\ LiveSize(a) = LiveSize(b)

(* C2: an alloc that returns Err / None leaves the allocator as it was     *)
(* when the call started: every free list holds the same blocks, user,     *)
(* allocated and total are unchanged.                                      *)
C2_FailedAllocUnchanged ==
    (last.op = "alloc" /\ ~last.ok)
       => IF kind = "heap" THEN SameHeap(heap, pre_alloc)
          ELSE SameFrame(frame, pre_alloc)

\* a failed alloc in an allocator that holds free blocks
C2_Witness ==
    /\ last.op = "alloc" /\ ~last.ok
    /\ \E k \in Classes : FreeSet(k) # {}

(* C3: alloc fails exactly when every free list of class in [class, 32) is *)
(* empty when it is called; in particular a request whose rounded size     *)
(* exceeds 2^31 (class >= 32) always fails.                                *)
C3_FailsIffNoClass ==
    last.op = "alloc"
       => /\ last.ok <=> SomeClassFrom(CallClass(last))
          /\ CallClass(last) >= ORDER => ~last.ok

\* a request of class 32 refused while the largest class holds a block
C3_Witness ==
    /\ kind = "heap"
    /\ last.op = "alloc" /\ ~last.ok
    /\ CallClass(last) >= ORDER
    /\ FreeSet(ORDER - 1) # {}

(* C4: an address returned by Heap::alloc(layout) is a multiple of         *)
(* max(align, word_size); the call raises allocated by                     *)
(* max(next_pow2(size), align, word_size) and user by size.                *)
C4_AlignedAndCounted ==
    (kind = "heap" /\ last.op = "alloc" /\ last.ok)
       => /\ last.ptr % Max(last.align, WordUnits) = 0
          /\ heap.allocated = pre_alloc.allocated
                + Max(next_power_of_two(last.req), Max(last.align, WordUnits))
          /\ heap.user = pre_alloc.user + last.req

\* alloc(size = 1, align = 64) has returned a 64-byte block
C4_Witness ==
    /\ kind = "heap" /\ LoMode
    /\ last.op = "alloc" /\ last.ok /\ last.req = 1 /\ last.align = 64
    /\ last.ptr % 64 = 0
    /\ heap.allocated = 64 /\ heap.user = 1

(* C5: allocated <= total, for Heap also user <= allocated, and no counter *)
(* ever goes below zero, in every reachable state.                         *)
C5_CounterOrder ==
    /\ 0 <= frame.allocated /\ frame.allocated <= frame.total
    /\ 0 <= heap.user /\ heap.user <= heap.allocated
    /\ heap.allocated <= heap.total

\* a dealloc has lowered the counters while another allocation is live
C5_Witness ==
    /\ kind = "heap"
    /\ last.op = "dealloc" /\ last.ok
    /\ 0 < heap.user /\ heap.user < heap.allocated
    /\ heap.allocated < heap.total

(* C6: once every allocation has been returned, allocated = 0 (and user = *)
(* 0 for Heap); alloc and dealloc never change total.                      *)
C6_AllReturned ==
    [][ /\ (last'.op = "dealloc" /\ live' = {})
              => /\ frame'.allocated = 0
                 /\ heap'.allocated = 0 /\ heap'.user = 0
        /\ last'.op \in {"alloc", "dealloc"}
              => heap'.total = heap.total /\ frame'.total = frame.total
      ]_vars

(* C7: a successful alloc(L) immediately followed by dealloc(result, L)    *)
(* gives back the free lists (class by class, order ignored) and the       *)
(* counters the allocator had before the alloc.                            *)
C7_RoundTrip ==
    (last.op = "dealloc" /\ last.roundtrip)
       => IF kind = "heap" THEN SameHeap(heap, pre_alloc)
          ELSE SameFrame(frame, pre_alloc)

(* C8: right after every dealloc no class k holds two free blocks p and q  *)
(* with q = p XOR (1 << k).                                                *)
C8_NoFreeBuddies ==
    (last.op = "dealloc" /\ last.ok)
       => \A k \in Classes :
             \A p \in FreeSet(k) : XorBit(p, k) \notin FreeSet(k)

\* the free frames of class 0 and class 1 when the last alloc call started
C9_Before(class0, class1) ==
    pre_alloc.free_list[0] = class0 /\ pre_alloc.free_list[1] = class1

(* C9: FrameAllocator::alloc(count) serves the request from the first      *)
(* non-empty class i >= class, leaves every larger class alone and returns *)
(* the lowest start frame of class i; after add_frame(0, 3): alloc(1) =    *)
(* Some(2), alloc(2) = Some(0), then alloc(1) = None (each call named by   *)
(* the free frames it starts from); with no frames added alloc returns     *)
(* None.                                                                   *)
C9_FirstClassLowestFrame ==
    (kind = "frame" /\ last.op = "alloc")
       => LET class == CallClass(last)
              cand  == {i \in Classes : i >= class /\ pre_alloc.free_list[i] # {}}
              i     == SetMin(cand)
          IN  /\ cand = {} => ~last.ok
              /\ cand # {} =>
                    /\ last.ok
                    /\ \A p \in pre_alloc.free_list[i] : last.ptr <= p
                    /\ last.ptr \in pre_alloc.free_list[i]
                    /\ \A k \in Classes :
                          k > i => frame.free_list[k] = pre_alloc.free_list[k]
              /\ regions = {} => ~last.ok
              /\ (LoMode /\ regions = {<<0, 3>>}) =>
                    /\ (C9_Before({2}, {0}) /\ last.req = 1)
                          => last.ok /\ last.ptr = 2
                    /\ (C9_Before({}, {0}) /\ last.req = 2)
                          => last.ok /\ last.ptr = 0
                    /\ (C9_Before({}, {}) /\ last.req = 1) => ~last.ok

\* add_frame(0, 3); alloc(1) = Some(2); alloc(2) = Some(0); alloc(1) = None
C9_Witness ==
    /\ kind = "frame" /\ LoMode /\ regions = {<<0, 3>>}
    /\ live = {[ptr |-> 2, req |-> 1, align |-> 0],
               [ptr |-> 0, req |-> 2, align |-> 0]}
    /\ last.op = "alloc" /\ ~last.ok /\ last.req = 1

\* the heap was initialised by one add_to_heap(start, start + 1 KiB)
C10_OneKiB(start) ==
    kind = "heap" /\ LoMode /\ regions = {<<start, start + 1024>>}

\* the steps of the scenario, for the alloc call just made
C10_Steps(start) ==
    /\ (pre_alloc.allocated = 0 /\ last.req = 1024)
          => last.ok /\ last.ptr = start
    /\ (pre_alloc.allocated = 1024 /\ last.req > 0
        /\ \E a \in live : a.req = 1024)
          => ~last.ok

(* C10 as stated: a Heap over any one 1 KiB region: with nothing           *)
(* allocated, alloc of 1 KiB succeeds (the first time and again after the  *)
(* block was returned, at the same address); while the 1 KiB allocation is *)
(* live every alloc of a positive size fails.                              *)
C10_AnyRegion ==
    \A rg \in regions :
       (C10_OneKiB(rg[1]) /\ last.op = "alloc") => C10_Steps(rg[1])

(* C10 amended: the same, for a region whose start is a non-zero multiple  *)
(* of 1 KiB.                                                               *)
C10_Exhaustion ==
    \A rg \in regions :
       (C10_OneKiB(rg[1]) /\ rg[1] > 0 /\ rg[1] % 1024 = 0 /\ last.op = "alloc")
          => C10_Steps(rg[1])

\* an alloc of a positive size refused while the 1 KiB allocation is live
C10_Witness ==
    /\ C10_OneKiB(2048)
    /\ live = {[ptr |-> 2048, req |-> 1024, align |-> 8]}
    /\ last.op = "alloc" /\ ~last.ok /\ last.req > 0

\* the class of a one-word block: log2(size_of::<usize>())
WordClass == ClassOf(WordUnits)

(* C12: every block add_to_heap pushes, also for a start that is odd or    *)
(* otherwise not word-aligned, has a size >= word_size and a word-aligned  *)
(* start: right after an add_to_heap no class below log2(word_size) holds  *)
(* a block and every free block starts on a word boundary.                 *)
C12_WordSizedBlocks ==
    (kind = "heap" /\ last.op = "add" /\ last.ok)
       => \A k \in Classes :
             \A p \in FreeSet(k) : k >= WordClass /\ p % WordUnits = 0

(* C13: right after add_frame(start, end) the blocks of [start, end) are   *)
(* the maximally-aligned, maximally-sized ones: a free block of class k in *)
(* the range is not both aligned to 2^(k+1) and followed by 2^(k+1) frames *)
(* of the range; and for start = 0 the block at frame 0 has size           *)
(* prev_power_of_two(end).                                                 *)
C13_MaximalBlocks ==
    (kind = "frame" /\ last.op = "add" /\ last.ok)
       => /\ \A k \in Classes :
                \A p \in FreeSet(k) :
                   (last.ptr <= p /\ p < last.req)
                      => \/ p % Shl1(k + 1) # 0
                         \/ p + Shl1(k + 1) > last.req
          /\ (last.ptr = 0 /\ last.req >= 1)
                => 0 \in FreeSet(ClassOf(prev_power_of_two(last.req)))

\* alloc(size = 1, align = 1) was called on a byte heap whose only free
\* block was one class-3 (8-byte) block
C14_Case ==
    /\ kind = "heap" /\ LoMode
    /\ last.op = "alloc" /\ last.req = 1 /\ last.align = 1
    /\ \A k \in Classes :
          Len(pre_alloc.free_list[k]) = IF k = 3 THEN 1 ELSE 0

(* C14 as stated: the call succeeds and leaves exactly one free block in   *)
(* each of class 0, class 1 and class 2 and none in class 3.               *)
C14_SplitCascade ==
    C14_Case
       => /\ last.ok
          /\ \A k \in 0 .. 2 : Len(heap.free_list[k]) = 1
          /\ LL_is_empty(heap.free_list[3])

(* C14 amended: the call succeeds and returns the class-3 block itself,    *)
(* without a split: every class, 0 to 3 included, is empty afterwards,     *)
(* allocated has grown by 8 and user by 1.                                 *)
C14_WholeWordBlock ==
    C14_Case
       => /\ last.ok
          /\ last.ptr = LL_pop_value(pre_alloc.free_list[3])
          /\ \A k \in Classes : LL_is_empty(heap.free_list[k])
          /\ heap.allocated = pre_alloc.allocated + 8
          /\ heap.user = pre_alloc.user + 1

\* add_to_heap(8, 16); alloc(1, 1) = 8
C14_Witness ==
    /\ C14_Case
    /\ regions = {<<8, 16>>}
    /\ last.ok /\ last.ptr = 8
    /\ live = {[ptr |-> 8, req |-> 1, align |-> 1]}

\* the range is one naturally aligned power-of-two block of a class <= 31
C15_AlignedBlock(rg) ==
    LET size == rg[2] - rg[1]
    IN  /\ size > 0
        /\ size = prev_power_of_two(size)
        /\ rg[1] % size = 0
        /\ ClassOf(size) \in Classes

\* the number of free blocks of class k
FreeCount(k) ==
    IF kind = "heap" THEN Len(heap.free_list[k])
    ELSE Cardinality(frame.free_list[k])

(* C15: an allocator initialised with a single region that is one          *)
(* naturally aligned power-of-two block of class c holds, after a dealloc  *)
(* that leaves no allocation live, exactly one free block: that block, at  *)
(* its start, in class c; every other class is empty.                      *)
C15_SingleBlockRestored ==
    \A rg \in regions :
       (/\ regions = {rg} /\ C15_AlignedBlock(rg)
        /\ last.op = "dealloc" /\ last.ok /\ live = {})
          => \A k \in Classes :
                IF k = ClassOf(rg[2] - rg[1])
                THEN FreeSet(k) = {rg[1]} /\ FreeCount(k) = 1
                ELSE FreeCount(k) = 0

\* the block [p, p + size) lies inside the range rg
InRange(p, size, rg) == rg[1] <= p /\ p + size <= rg[2]

\* every unit of the block [p, p + size) lies in some added range: its
\* first unit does, and so does the unit after every range that ends
\* inside the block
Covered(p, size) ==
    /\ \E rg \in regions : InRange(p, 1, rg)
    /\ \A r1 \in regions :
          (p <= r1[2] /\ r1[2] < p + size)
             => \E rg \in regions : InRange(r1[2], 1, rg)

(* C16 as stated: every block in the free list of class k starts at a      *)
(* multiple of 2^k and lies, all 2^k units of it, inside one range that    *)
(* was passed to an add-region call.                                       *)
C16_AlignedInsideOneRange ==
    \A k \in Classes :
       \A p \in FreeSet(k) :
          /\ p % Shl1(k) = 0
          /\ \E rg \in regions : InRange(p, Shl1(k), rg)

(* C16 amended: every block in the free list of class k starts at a        *)
(* multiple of 2^k and all its 2^k units lie inside the union of the       *)
(* ranges passed to add-region calls (a merged block may span two          *)
(* adjacent ranges).                                                       *)
C16_AlignedInsideAdded ==
    \A k \in Classes :
       \A p \in FreeSet(k) :
          /\ p % Shl1(k) = 0
          /\ Covered(p, Shl1(k))

\* a dealloc has merged two blocks that came from two adjacent ranges
C16_Witness ==
    /\ last.op = "dealloc"
    /\ \E k \in Classes :
          \E p \in FreeSet(k) :
             /\ Covered(p, Shl1(k))
             /\ ~\E rg \in regions : InRange(p, Shl1(k), rg)

\* sum over the classes k <= top of 2^k * (number of free blocks of class k)
RECURSIVE FreeSum(_)
FreeSum(top) ==
    IF top < 0 THEN 0
    ELSE FreeSum(top - 1)
         + (IF FreeCount(top) = 0 THEN 0 ELSE Shl1(top) * FreeCount(top))

\* the free blocks, as <<class, start>> pairs
FreeBlocks == {b \in Classes \X UNION {FreeSet(k) : k \in Classes} :
                  b[2] \in FreeSet(b[1])}

\* the free blocks are pairwise disjoint, disjoint from the live
\* allocations, and add up with allocated to total
Conserved ==
    /\ \A b1 \in FreeBlocks : \A b2 \in FreeBlocks :
          b1 # b2 => RangesDisjoint(b1[2], Shl1(b1[1]), b2[2], Shl1(b2[1]))
    /\ \A k \in Classes : FreeCount(k) = Cardinality(FreeSet(k))
    /\ \A b \in FreeBlocks : \A a \in live :
          RangesDisjoint(b[2], Shl1(b[1]), a.ptr, LiveSize(a))
    /\ FreeSum(ORDER - 1) + Allocated = Total

(* C17: conservation.  In every reachable state (no call having aborted)  *)
(* the free blocks are pairwise disjoint and disjoint from every live      *)
(* allocation, and (sum over k of 2^k * free blocks of class k) +          *)
(* allocated = total: no operation, a dealloc that merges two class-31     *)
(* buddies included, makes a block disappear from all free lists.          *)
C17_Conservation == ~panicked => Conserved

(* C18: dealloc merges only while the current class is below 31: a free    *)
(* class-31 block is never taken off its list by a dealloc (merged with    *)
(* its buddy), and dealloc never aborts on a free list of class 32.  Heap  *)
(* and FrameAllocator.                                                     *)
C18_NoMergeAtTopClass ==
    [][ last'.op = "dealloc"
           => /\ FreeSet(ORDER - 1) \subseteq FreeSet(ORDER - 1)'
              /\ ~panicked'
      ]_vars

(* C19: for every start <= end, add_to_heap(start, end) and                *)
(* add_frame(start, end) complete without aborting (every block goes to a  *)
(* class in [0, 32)), start = 0 and ranges holding an aligned block of     *)
(* 2^32 included; with start = end the call changes nothing.               *)
C19_AddNeverAborts ==
    [][ (last'.op = "add" /\ last'.ptr <= last'.req)
           => /\ ~panicked'
              /\ last'.ptr = last'.req => heap' = heap /\ frame' = frame
      ]_vars

\* the allocations held by the threads, as <<thread, allocation>> pairs
Held == {h \in Threads \X live : h[2] \in thread[h[1]].mine}

\* every thread is outside the allocator and has returned what it was given
AllJoined ==
    \A t \in Threads : thread[t].pc \in {"idle", "dead"} /\ thread[t].mine = {}

(* C11: through the locked wrappers every operation runs while its thread  *)
(* holds the mutex: at most one thread is behind the guard, the allocator  *)
(* changes only in the step of that thread, no two threads hold            *)
(* overlapping blocks, alloc and dealloc leave total alone, and once all   *)
(* threads have freed everything and left, allocated = 0 (and user = 0).   *)
C11_Serialized ==
    [][ /\ Cardinality({t \in Threads : thread'[t].pc = "held"}) <= 1
        /\ (heap' # heap \/ frame' # frame)
              => \E t \in Threads :
                    thread[t].pc = "held" /\ thread'[t].pc # "held"
        /\ \A h1 \in Held' : \A h2 \in Held' :
              h1 # h2 => LiveDisjoint(h1[2], h2[2])
        /\ last'.op \in {"alloc", "dealloc"}
              => heap'.total = heap.total /\ frame'.total = frame.total
        /\ AllJoined'
              => /\ frame'.allocated = 0
                 /\ heap'.allocated = 0 /\ heap'.user = 0
      ]_vars

(* C20: progress under the locked wrappers.  With the threads scheduled    *)
(* fairly, every operation that has acquired the gate ends and releases    *)
(* it, and every thread that has called an operation (and waits in lock()) *)
(* eventually completes it and is back outside the allocator.              *)
C20_Progress ==
    \A t \in Threads :
       /\ (thread[t].pc = "held") ~> (gate = FALSE)
       /\ (thread[t].pc = "lock") ~> (thread[t].pc = "idle")

=============================================================================
